---- MODULE Spec2Model ----
(***************************************************************************)
(* Model of nsinit.Init (src/sysinit/sysinit.go): the in-namespace init    *)
(* sequence, the user-namespace clone with its escalating parent and       *)
(* nested child, and the helpers LoadContainerEnvironment, setupNetwork,   *)
(* writeUserMappings and RestoreParentDeathSignal.                         *)
(*                                                                         *)
(* Strings that the code splits or formats are sequences of one-character  *)
(* strings.  Every call into the kernel or into another package may fail;  *)
(* its outcome is drawn with \E.                                           *)
(***************************************************************************)
EXTENDS Integers, Sequences, FiniteSets, TLC

(* ---------------- bounds ---------------- *)
MaxStrLen == 3
MaxEnvLen == 2
MaxNets == 2
MaxSig == 15

(* ---------------- program constants ---------------- *)
secbit_keep_caps == 4
secbit_no_setuid_fixup == 2
dockerRootUid == 1017
dockerRootGid == 1017
ExitCodes == 0..255
SIGKILL == 9

VARIABLES
  container,     \* the *libcontainer.Container argument (read-only)
  consolePath,   \* "" or a path
  args,          \* argv of the target program
  environ,       \* the live process environment: key -> value
  pc,            \* position of each process in Init
  ops,           \* per process: the calls it has made, in order
  ret,           \* per process: what Init returned ("none" while running)
  context,       \* payload read from the parent
  netIdx,        \* loop index of setupNetwork
  pdeathsig,     \* kernel's parent-death signal of the calling process
  ppid,          \* syscall.Getppid() of the calling process
  pdeathSignal,  \* local pdeathSignal of Init
  cred,          \* [uid, gid, securebits] of the calling process
  pipes,         \* per process, per channel: number of Close calls
  mapFiles,      \* /proc/<pid>/uid_map and gid_map: the contents written, in order
  wstatus,       \* per process: -1 while alive, else its wait status
  state          \* the WaitStatus proc.Wait() gave the parent (-1: none)

vars == <<container, consolePath, args, environ, pc, ops, ret, context, netIdx,
          pdeathsig, ppid, pdeathSignal, cred, pipes, mapFiles, wstatus, state>>

Procs == {"parent", "child"}
NoErr == "nil"

(* ---------------- strings and the environment ---------------- *)
Chars == {"a", "="}

RECURSIVE StrUpTo(_)
StrUpTo(n) ==
  IF n = 0 THEN {<<>>}
  ELSE StrUpTo(n - 1) \cup {Append(s, c) : s \in {t \in StrUpTo(n - 1) : Len(t) = n - 1}, c \in Chars}

RECURSIVE SeqUpTo(_, _)
SeqUpTo(S, n) ==
  IF n = 0 THEN {<<>>}
  ELSE SeqUpTo(S, n - 1) \cup {Append(s, x) : s \in {t \in SeqUpTo(S, n - 1) : Len(t) = n - 1}, x \in S}

\* index of the first "=" of s, 0 when there is none
IndexEq(s) ==
  IF \E i \in 1..Len(s) : s[i] = "="
  THEN CHOOSE i \in 1..Len(s) : s[i] = "=" /\ \A j \in 1..(i - 1) : s[j] # "="
  ELSE 0

\* strings.SplitN(pair, "=", 2)
SplitN2(pair) ==
  IF IndexEq(pair) = 0 THEN <<pair>>
  ELSE <<SubSeq(pair, 1, IndexEq(pair) - 1), SubSeq(pair, IndexEq(pair) + 1, Len(pair))>>

EmptyEnv == [k \in {} |-> <<>>]

\* os.Setenv(key, value): EINVAL on an empty key, else (re)binds key
Setenv(env, key, value) ==
  IF Len(key) = 0 THEN [env |-> env, err |-> "EINVAL"]
  ELSE [env |-> [k \in (DOMAIN env) \cup {key} |-> IF k = key THEN value ELSE env[k]],
        err |-> NoErr]

\* the loop of LoadContainerEnvironment from entry i on
RECURSIVE LoadLoop(_, _, _)
LoadLoop(env, declared, i) ==
  IF i > Len(declared) THEN [env |-> env, err |-> NoErr]
  ELSE LET p == SplitN2(declared[i]) IN
       IF Len(p) < 2 THEN [env |-> env, err |-> "invalid environment"]
       ELSE LET r == Setenv(env, p[1], p[2]) IN
            IF r.err # NoErr THEN r
            ELSE LoadLoop(r.env, declared, i + 1)

\* LoadContainerEnvironment without os.Clearenv()
LoadWithoutClearenv(env, declared) == LoadLoop(env, declared, 1)

\* LoadContainerEnvironment: os.Clearenv(), then the loop
LoadContainerEnvironment(env, declared) == LoadLoop(EmptyEnv, declared, 1)

(* ---------------- configuration ---------------- *)
Registered == {"veth", "loopback"}
NetTypes == {"veth", "bogus"}

\* network.GetStrategy(type)
GetStrategy(type) == IF type \in Registered THEN NoErr ELSE "unknown network type"

InheritedEnvs ==
  { EmptyEnv,
    [k \in {<<"a">>} |-> <<"=">>],
    [k \in {<<"a">>, <<"a", "a", "a", "a", "a">>} |-> <<"a", "a">>] }

EnvEntries == StrUpTo(MaxStrLen)
EnvSmall == { <<>>, << <<"a", "=", "a">> >>, << <<"a", "=">>, <<"a">> >> }

\* container.Context: apparmor_profile, process_label, restrictions
Contexts ==
  { [apparmor_profile |-> "", process_label |-> "", restrictions |-> ""],
    [apparmor_profile |-> "docker-default", process_label |-> "lbl", restrictions |-> "true"] }

Containers ==
  [ Env : EnvSmall,
    Networks : SeqUpTo(NetTypes, MaxNets),
    Hostname : {"", "h"},
    Context : Contexts ]

\* configurations for the environment reconstruction alone
EnvContainers ==
  [ Env : SeqUpTo(EnvEntries, MaxEnvLen),
    Networks : {<<>>},
    Hostname : {""},
    Context : {[apparmor_profile |-> "", process_label |-> "", restrictions |-> ""]} ]

Payloads == {"empty", "veth0"}

Ev(op, arg, ok) == [op |-> op, arg |-> arg, ok |-> ok]

Did(p, op) == \E i \in DOMAIN ops[p] : ops[p][i].op = op

InitWith(containers, consoles, inherited, kernels) ==
  /\ container \in containers
  /\ consolePath \in consoles
  /\ args = <<"/bin/true">>
  /\ environ \in inherited
  /\ pc = [p \in Procs |-> IF p = "parent" THEN "ResolveRootfs" ELSE "unborn"]
  /\ ops = [p \in Procs |-> <<>>]
  /\ ret = [p \in Procs |-> "none"]
  /\ context = "none"
  /\ netIdx = 1
  /\ \E k \in kernels : pdeathsig = k.sig /\ ppid = k.ppid
  /\ pdeathSignal = 0
  /\ cred = [uid |-> 0, gid |-> 0, securebits |-> 0]
  /\ pipes = [p \in Procs |-> [syncPipe |-> 0, sPipe |-> 0]]
  /\ mapFiles = [uid_map |-> <<>>, gid_map |-> <<>>]
  /\ wstatus = [p \in Procs |-> -1]
  /\ state = -1

\* parent-death signal and parent pid at the start: none configured under a
\* live parent, or SIGKILL configured and the parent already gone
Kernels == {[sig |-> 0, ppid |-> 2], [sig |-> SIGKILL, ppid |-> 1]}

Init == InitWith(Containers, {"", "/dev/pts/1"}, {[k \in {<<"a">>} |-> <<"=">>]}, Kernels)

\* a call of RestoreParentDeathSignal(old) for every old, every current value
\* of the kernel and a parent pid of 0 (new pid namespace), 1 (reaper) or 2
Signals == 0..MaxSig
InitRestore ==
  /\ container = [Env |-> <<>>, Networks |-> <<>>, Hostname |-> "",
                  Context |-> [apparmor_profile |-> "", process_label |-> "", restrictions |-> ""]]
  /\ consolePath = ""
  /\ args = <<"/bin/true">>
  /\ environ = EmptyEnv
  /\ pc = [p \in Procs |-> IF p = "parent" THEN "RestoreParentDeathSignal" ELSE "unborn"]
  /\ ops = [p \in Procs |-> <<>>]
  /\ ret = [p \in Procs |-> "none"]
  /\ context = "none"
  /\ netIdx = 1
  /\ pdeathsig \in Signals
  /\ ppid \in {0, 1, 2}
  /\ pdeathSignal \in Signals
  /\ cred = [uid |-> 0, gid |-> 0, securebits |-> 0]
  /\ pipes = [p \in Procs |-> [syncPipe |-> 0, sPipe |-> 0]]
  /\ mapFiles = [uid_map |-> <<>>, gid_map |-> <<>>]
  /\ wstatus = [p \in Procs |-> -1]
  /\ state = -1

InitEnv == InitWith(EnvContainers, {""}, InheritedEnvs, {[sig |-> 0, ppid |-> 2]})

(* ---------------- wait statuses ---------------- *)
Exited(code) == code * 256
Signaled(sig) == sig
ChildStatuses == {Exited(c) : c \in ExitCodes} \cup {Signaled(SIGKILL)}

\* ExitStatus without the shift to the exit-code byte
ExitStatusNoShift(w) == IF w % 128 # 0 THEN -1 ELSE w % 256

\* syscall.WaitStatus.ExitStatus(): -1 unless the low 7 bits are 0
ExitStatus(w) == IF w % 128 # 0 THEN -1 ELSE (w \div 256) % 256

\* os.Exit(code): the kernel keeps the low 8 bits of code
OsExit(code) == Exited(code % 256)

(* ---------------- steps of Init ---------------- *)
Log(p, evs) == ops' = [ops EXCEPT ![p] = @ \o evs]
Goto(p, to) == pc' = [pc EXCEPT ![p] = to]
Return(p, err) ==
  /\ pc' = [pc EXCEPT ![p] = "returned"]
  /\ ret' = [ret EXCEPT ![p] = err]

\* a call that either succeeds and falls through to `to` or makes Init
\* return the error errmsg
Call(p, from, op, arg, ok, to, errmsg) ==
  /\ pc[p] = from
  /\ Log(p, <<Ev(op, arg, ok)>>)
  /\ IF ok THEN Goto(p, to) /\ UNCHANGED ret ELSE Return(p, errmsg)

\* proc.Kill() followed by `return err` in the escalating parent: the child
\* gets SIGKILL unless it has already terminated
KillAndReturn(evs, err) ==
  /\ Log("parent", evs \o <<Ev("Kill", "child", TRUE)>>)
  /\ wstatus' = [wstatus EXCEPT !["child"] = IF @ = -1 THEN Signaled(SIGKILL) ELSE @]
  /\ pc' = [pc EXCEPT !["child"] = IF wstatus["child"] = -1 THEN "dead" ELSE @,
                      !["parent"] = "returned"]
  /\ ret' = [ret EXCEPT !["parent"] = err]

config == <<container, consolePath, args>>
kernel == <<pdeathsig, ppid, cred>>
escal == <<mapFiles, wstatus, state>>

ResolveRootfs ==
  /\ \E ok \in BOOLEAN :
       Call("parent", "ResolveRootfs", "ResolveRootfs", "", ok,
            "LoadContainerEnvironment", "resolve rootfs")
  /\ UNCHANGED <<config, environ, context, netIdx, kernel, pdeathSignal, pipes, escal>>

StepLoadContainerEnvironment ==
  /\ pc["parent"] = "LoadContainerEnvironment"
  /\ LET r == LoadContainerEnvironment(environ, container.Env) IN
       /\ environ' = r.env
       /\ Log("parent", <<Ev("LoadContainerEnvironment", "", r.err = NoErr)>>)
       /\ IF r.err = NoErr THEN Goto("parent", "ReadFromParent") /\ UNCHANGED ret
          ELSE Return("parent", r.err)
  /\ UNCHANGED <<config, context, netIdx, kernel, pdeathSignal, pipes, escal>>

ReadFromParent ==
  /\ pc["parent"] = "ReadFromParent"
  /\ \/ \E payload \in Payloads :
          /\ context' = payload
          /\ Log("parent", <<Ev("ReadFromParent", payload, TRUE)>>)
          /\ Goto("parent", "syncPipe.Close")
          /\ UNCHANGED <<ret, pipes>>
     \/ /\ Log("parent", <<Ev("ReadFromParent", "", FALSE), Ev("syncPipe.Close", "", TRUE)>>)
        /\ pipes' = [pipes EXCEPT !["parent"].syncPipe = @ + 1]
        /\ Return("parent", "read from parent")
        /\ UNCHANGED context
  /\ UNCHANGED <<config, environ, netIdx, kernel, pdeathSignal, escal>>

SyncPipeClose ==
  /\ Call("parent", "syncPipe.Close", "syncPipe.Close", "", TRUE, "OpenAndDup", "")
  /\ pipes' = [pipes EXCEPT !["parent"].syncPipe = @ + 1]
  /\ UNCHANGED <<config, environ, context, netIdx, kernel, pdeathSignal, escal>>

OpenAndDup ==
  /\ pc["parent"] = "OpenAndDup"
  /\ IF consolePath # ""
     THEN \E ok \in BOOLEAN :
            Call("parent", "OpenAndDup", "OpenAndDup", consolePath, ok, "Setsid", "open console")
     ELSE Goto("parent", "Setsid") /\ UNCHANGED <<ops, ret>>
  /\ UNCHANGED <<config, environ, context, netIdx, kernel, pdeathSignal, pipes, escal>>

Setsid ==
  /\ \E ok \in BOOLEAN :
       Call("parent", "Setsid", "Setsid", "", ok, "Setctty", "setsid")
  /\ UNCHANGED <<config, environ, context, netIdx, kernel, pdeathSignal, pipes, escal>>

Setctty ==
  /\ pc["parent"] = "Setctty"
  /\ IF consolePath # ""
     THEN \E ok \in BOOLEAN :
            Call("parent", "Setctty", "Setctty", "", ok, "setupNetwork", "setctty")
     ELSE Goto("parent", "setupNetwork") /\ UNCHANGED <<ops, ret>>
  /\ UNCHANGED <<config, environ, context, netIdx, kernel, pdeathSignal, pipes, escal>>

\* setupNetwork that skips an endpoint whose type does not resolve
setupNetworkSkipUnknown ==
  /\ pc["parent"] = "setupNetwork"
  /\ IF netIdx > Len(container.Networks)
     THEN Goto("parent", "label.Init") /\ UNCHANGED <<ops, ret, netIdx>>
     ELSE LET cfg == [idx |-> netIdx, Type |-> container.Networks[netIdx]]
              err == GetStrategy(cfg.Type) IN
          IF err # NoErr
          THEN /\ Log("parent", <<Ev("GetStrategy", cfg, FALSE)>>)
               /\ netIdx' = netIdx + 1
               /\ UNCHANGED <<pc, ret>>
          ELSE \E ok \in BOOLEAN :
                 /\ Log("parent", <<Ev("GetStrategy", cfg, TRUE),
                                    Ev("Initialize", <<cfg, context>>, ok)>>)
                 /\ IF ok THEN netIdx' = netIdx + 1 /\ UNCHANGED <<pc, ret>>
                    ELSE Return("parent", "setup networking") /\ UNCHANGED netIdx
  /\ UNCHANGED <<config, environ, context, kernel, pdeathSignal, pipes, escal>>

\* setupNetwork that goes on to the next endpoint when Initialize fails
setupNetworkContinueOnError ==
  /\ pc["parent"] = "setupNetwork"
  /\ IF netIdx > Len(container.Networks)
     THEN Goto("parent", "label.Init") /\ UNCHANGED <<ops, ret, netIdx>>
     ELSE LET cfg == [idx |-> netIdx, Type |-> container.Networks[netIdx]]
              err == GetStrategy(cfg.Type) IN
          IF err # NoErr
          THEN /\ Log("parent", <<Ev("GetStrategy", cfg, FALSE)>>)
               /\ Return("parent", "setup networking")
               /\ UNCHANGED netIdx
          ELSE \E ok \in BOOLEAN :
                 /\ Log("parent", <<Ev("GetStrategy", cfg, TRUE),
                                    Ev("Initialize", <<cfg, context>>, ok)>>)
                 /\ netIdx' = netIdx + 1
                 /\ UNCHANGED <<pc, ret>>
  /\ UNCHANGED <<config, environ, context, kernel, pdeathSignal, pipes, escal>>

\* one iteration of the loop of setupNetwork(container, context), or its
\* `return nil` once every endpoint has been visited
setupNetwork ==
  /\ pc["parent"] = "setupNetwork"
  /\ IF netIdx > Len(container.Networks)
     THEN Goto("parent", "label.Init") /\ UNCHANGED <<ops, ret, netIdx>>
     ELSE LET cfg == [idx |-> netIdx, Type |-> container.Networks[netIdx]]
              err == GetStrategy(cfg.Type) IN
          IF err # NoErr
          THEN /\ Log("parent", <<Ev("GetStrategy", cfg, FALSE)>>)
               /\ Return("parent", "setup networking")
               /\ UNCHANGED netIdx
          ELSE \E ok \in BOOLEAN :
                 /\ Log("parent", <<Ev("GetStrategy", cfg, TRUE),
                                    Ev("Initialize", <<cfg, context>>, ok)>>)
                 /\ IF ok THEN netIdx' = netIdx + 1 /\ UNCHANGED <<pc, ret>>
                    ELSE Return("parent", "setup networking") /\ UNCHANGED netIdx
  /\ UNCHANGED <<config, environ, context, kernel, pdeathSignal, pipes, escal>>

\* label.Init() followed directly by the hardening, the mount setup left out
LabelInitThenHarden ==
  /\ Call("parent", "label.Init", "label.Init", "", TRUE, "ApplyProfile", "")
  /\ UNCHANGED <<config, environ, context, netIdx, kernel, pdeathSignal, pipes, escal>>

LabelInit ==
  /\ Call("parent", "label.Init", "label.Init", "", TRUE, "InitializeMountNamespace", "")
  /\ UNCHANGED <<config, environ, context, netIdx, kernel, pdeathSignal, pipes, escal>>

InitializeMountNamespace ==
  /\ \E ok \in BOOLEAN :
       Call("parent", "InitializeMountNamespace", "InitializeMountNamespace", "", ok,
            "Sethostname", "setup mount namespace")
  /\ UNCHANGED <<config, environ, context, netIdx, kernel, pdeathSignal, pipes, escal>>

Sethostname ==
  /\ pc["parent"] = "Sethostname"
  /\ IF container.Hostname # ""
     THEN \E ok \in BOOLEAN :
            Call("parent", "Sethostname", "Sethostname", container.Hostname, ok,
                 "OpenFile", "sethostname")
     ELSE Goto("parent", "OpenFile") /\ UNCHANGED <<ops, ret>>
  /\ UNCHANGED <<config, environ, context, netIdx, kernel, pdeathSignal, pipes, escal>>

\* os.OpenFile("/tmp/nsinit.log", ...): on failure Init does `return nil`
OpenFile ==
  /\ \E ok \in BOOLEAN :
       Call("parent", "OpenFile", "OpenFile", "/tmp/nsinit.log", ok, "LockOSThread", NoErr)
  /\ UNCHANGED <<config, environ, context, netIdx, kernel, pdeathSignal, pipes, escal>>

LockOSThread ==
  /\ Call("parent", "LockOSThread", "LockOSThread", "", TRUE, "ApplyProfile", "")
  /\ UNCHANGED <<config, environ, context, netIdx, kernel, pdeathSignal, pipes, escal>>

\* ApplyProfile skipped when no profile is named
ApplyProfileSkipEmpty ==
  /\ pc["parent"] = "ApplyProfile"
  /\ IF container.Context.apparmor_profile # ""
     THEN \E ok \in BOOLEAN :
            Call("parent", "ApplyProfile", "ApplyProfile", container.Context.apparmor_profile, ok,
                 "SetProcessLabel", "set apparmor profile")
     ELSE Goto("parent", "SetProcessLabel") /\ UNCHANGED <<ops, ret>>
  /\ UNCHANGED <<config, environ, context, netIdx, kernel, pdeathSignal, pipes, escal>>

ApplyProfile ==
  /\ \E ok \in BOOLEAN :
       Call("parent", "ApplyProfile", "ApplyProfile", container.Context.apparmor_profile, ok,
            "SetProcessLabel", "set apparmor profile")
  /\ UNCHANGED <<config, environ, context, netIdx, kernel, pdeathSignal, pipes, escal>>

SetProcessLabel ==
  /\ \E ok \in BOOLEAN :
       Call("parent", "SetProcessLabel", "SetProcessLabel", container.Context.process_label, ok,
            "Restrict", "set process label")
  /\ UNCHANGED <<config, environ, context, netIdx, kernel, pdeathSignal, pipes, escal>>

Restrict ==
  /\ pc["parent"] = "Restrict"
  /\ IF container.Context.restrictions # ""
     THEN \E ok \in BOOLEAN :
            Call("parent", "Restrict", "Restrict", "sys", ok, "GetParentDeathSignal", "restrict")
     ELSE Goto("parent", "GetParentDeathSignal") /\ UNCHANGED <<ops, ret>>
  /\ UNCHANGED <<config, environ, context, netIdx, kernel, pdeathSignal, pipes, escal>>

GetParentDeathSignal ==
  /\ \E ok \in BOOLEAN :
       /\ Call("parent", "GetParentDeathSignal", "GetParentDeathSignal", "", ok,
               "RestoreParentDeathSignal", "get parent death signal")
       /\ pdeathSignal' = IF ok THEN pdeathsig ELSE pdeathSignal
  /\ UNCHANGED <<config, environ, context, netIdx, kernel, pipes, escal>>

\* RestoreParentDeathSignal that installs old but never signals itself
RestoreNonZeroNoKill(old, current, pp) ==
  {[sig |-> current, err |-> "get parent death signal",
    calls |-> <<Ev("GetParentDeathSignal", "", FALSE)>>]}
  \cup
  (IF old = current
   THEN {[sig |-> current, err |-> NoErr, calls |-> <<Ev("GetParentDeathSignal", "", TRUE)>>]}
   ELSE
     {[sig |-> current, err |-> "set parent death signal",
       calls |-> <<Ev("GetParentDeathSignal", "", TRUE), Ev("ParentDeathSignal", old, FALSE)>>],
      [sig |-> old, err |-> NoErr,
       calls |-> <<Ev("GetParentDeathSignal", "", TRUE), Ev("ParentDeathSignal", old, TRUE)>>]})

\* RestoreParentDeathSignal(old) with the kernel's value current and parent
\* pid pp: every outcome as [sig: the kernel's value afterwards, err, calls];
\* RestoreNonZero is the part after the `old == 0` shortcut
RestoreNonZero(old, current, pp) ==
  {[sig |-> current, err |-> "get parent death signal",
    calls |-> <<Ev("GetParentDeathSignal", "", FALSE)>>]}
  \cup
  (IF old = current
   THEN {[sig |-> current, err |-> NoErr, calls |-> <<Ev("GetParentDeathSignal", "", TRUE)>>]}
   ELSE
     {[sig |-> current, err |-> "set parent death signal",
       calls |-> <<Ev("GetParentDeathSignal", "", TRUE), Ev("ParentDeathSignal", old, FALSE)>>]}
     \cup
     (IF pp = 1
      THEN {[sig |-> old, err |-> IF ok THEN NoErr ELSE "kill",
             calls |-> <<Ev("GetParentDeathSignal", "", TRUE), Ev("ParentDeathSignal", old, TRUE),
                         Ev("Kill", old, ok)>>] : ok \in BOOLEAN}
      ELSE {[sig |-> old, err |-> NoErr,
             calls |-> <<Ev("GetParentDeathSignal", "", TRUE), Ev("ParentDeathSignal", old, TRUE)>>]}))

\* RestoreParentDeathSignal without the `old == 0` shortcut
RestoreOutcomesNoZeroCheck(old, current, pp) == RestoreNonZero(old, current, pp)

RestoreOutcomes(old, current, pp) ==
  IF old = 0 THEN {[sig |-> current, err |-> NoErr, calls |-> <<>>]}
  ELSE RestoreNonZero(old, current, pp)

RestoreParentDeathSignal ==
  /\ pc["parent"] = "RestoreParentDeathSignal"
  /\ \E o \in RestoreOutcomes(pdeathSignal, pdeathsig, ppid) :
       /\ Log("parent", <<Ev("RestoreParentDeathSignal", pdeathSignal, o.err = NoErr)>> \o o.calls)
       /\ pdeathsig' = o.sig
       /\ IF o.err = NoErr THEN Goto("parent", "Prctl") /\ UNCHANGED ret
          ELSE Return("parent", "restore parent death signal")
  /\ UNCHANGED <<config, environ, context, netIdx, ppid, cred, pdeathSignal, pipes, escal>>

\* prctl(PR_SET_SECUREBITS, secbit_keep_caps|secbit_no_setuid_fixup): the two
\* flags are distinct bits, so their bitwise or is their sum
Prctl ==
  /\ \E ok \in BOOLEAN :
       /\ Call("parent", "Prctl", "Prctl", secbit_keep_caps + secbit_no_setuid_fixup, ok,
               "Setuid", "prctl")
       /\ cred' = IF ok THEN [cred EXCEPT !.securebits = secbit_keep_caps + secbit_no_setuid_fixup]
                  ELSE cred
  /\ UNCHANGED <<config, environ, context, netIdx, pdeathsig, ppid, pdeathSignal, pipes, escal>>

\* system.Setuid(dockerRootUid); the kernel clears the parent-death signal of
\* a process whose uid changes
Setuid ==
  /\ \E ok \in BOOLEAN :
       /\ Call("parent", "Setuid", "Setuid", dockerRootUid, ok, "Setgid", "setuid")
       /\ cred' = IF ok THEN [cred EXCEPT !.uid = dockerRootUid] ELSE cred
       /\ pdeathsig' = IF ok /\ cred.uid # dockerRootUid THEN 0 ELSE pdeathsig
  /\ UNCHANGED <<config, environ, context, netIdx, ppid, pdeathSignal, pipes, escal>>

\* Setgid whose failure is not checked
SetgidIgnoringError ==
  /\ pc["parent"] = "Setgid"
  /\ \E ok \in BOOLEAN :
       /\ Log("parent", <<Ev("Setgid", dockerRootGid, ok)>>)
       /\ Goto("parent", "NewSyncPipe")
       /\ UNCHANGED ret
       /\ cred' = IF ok THEN [cred EXCEPT !.gid = dockerRootGid] ELSE cred
       /\ pdeathsig' = IF ok /\ cred.gid # dockerRootGid THEN 0 ELSE pdeathsig
  /\ UNCHANGED <<config, environ, context, netIdx, ppid, pdeathSignal, pipes, escal>>

Setgid ==
  /\ \E ok \in BOOLEAN :
       /\ Call("parent", "Setgid", "Setgid", dockerRootGid, ok, "NewSyncPipe", "setgid")
       /\ cred' = IF ok THEN [cred EXCEPT !.gid = dockerRootGid] ELSE cred
       /\ pdeathsig' = IF ok /\ cred.gid # dockerRootGid THEN 0 ELSE pdeathsig
  /\ UNCHANGED <<config, environ, context, netIdx, ppid, pdeathSignal, pipes, escal>>

NewSyncPipe ==
  /\ \E ok \in BOOLEAN :
       Call("parent", "NewSyncPipe", "NewSyncPipe", "", ok, "Clone", "new sync pipe")
  /\ UNCHANGED <<config, environ, context, netIdx, kernel, pdeathSignal, pipes, escal>>

\* Clone after which the parent does not take the `pid != 0` branch
CloneWithoutBranch ==
  /\ pc["parent"] = "Clone"
  /\ \E ok \in BOOLEAN :
       /\ Log("parent", <<Ev("Clone", "", ok)>>)
       /\ IF ok THEN /\ pc' = [pc EXCEPT !["parent"] = "child.sPipe.Close",
                                          !["child"] = "child.sPipe.Close"]
                     /\ UNCHANGED ret
          ELSE Return("parent", "userns clone")
  /\ UNCHANGED <<config, environ, context, netIdx, kernel, pdeathSignal, pipes, escal>>

\* system.Clone(CLONE_NEWUSER | CLONE_FILES | SIGCHLD): on success the child
\* starts at the code after `if pid != 0 { ... }`
Clone ==
  /\ pc["parent"] = "Clone"
  /\ \E ok \in BOOLEAN :
       /\ Log("parent", <<Ev("Clone", "", ok)>>)
       /\ IF ok THEN /\ pc' = [pc EXCEPT !["parent"] = "FindProcess", !["child"] = "child.sPipe.Close"]
                     /\ UNCHANGED ret
          ELSE Return("parent", "userns clone")
  /\ UNCHANGED <<config, environ, context, netIdx, kernel, pdeathSignal, pipes, escal>>

(* ---------------- escalating parent (pid != 0) ---------------- *)
FindProcess ==
  /\ \E ok \in BOOLEAN :
       Call("parent", "FindProcess", "FindProcess", "child", ok, "uid_map", "find process")
  /\ UNCHANGED <<config, environ, context, netIdx, kernel, pdeathSignal, pipes, escal>>

\* a mapping of a range of IDs instead of one
mappingsRange == << <<0, dockerRootUid, 65536>> >>

\* mappings := fmt.Sprintf("0 %v 1", dockerRootUid): one line of three fields
mappings == << <<0, dockerRootUid, 1>> >>

\* WriteMapping that ignores the error of the write
WriteMappingIgnoringError(file, to) ==
  /\ pc["parent"] = file
  /\ \E ok \in BOOLEAN :
       /\ Log("parent", <<Ev("WriteFile", <<file, << <<0, dockerRootUid, 1>> >> >>, ok)>>)
       /\ mapFiles' = [mapFiles EXCEPT ![file] = IF ok THEN Append(@, << <<0, dockerRootUid, 1>> >>) ELSE @]
       /\ Goto("parent", to)
  /\ UNCHANGED <<config, environ, context, netIdx, kernel, pdeathSignal, pipes, state, ret, wstatus>>

\* one iteration of the loop of writeUserMappings(pid, mappings); a failed
\* write makes Init kill the child and return
WriteMapping(file, to) ==
  /\ pc["parent"] = file
  /\ \E ok \in BOOLEAN :
       IF ok
       THEN /\ Log("parent", <<Ev("WriteFile", <<file, mappings>>, TRUE)>>)
            /\ mapFiles' = [mapFiles EXCEPT ![file] = Append(@, mappings)]
            /\ Goto("parent", to)
            /\ UNCHANGED <<ret, wstatus>>
       ELSE /\ KillAndReturn(<<Ev("WriteFile", <<file, mappings>>, FALSE)>>,
                             "Failed to write mappings")
            /\ UNCHANGED mapFiles
  /\ UNCHANGED <<config, environ, context, netIdx, kernel, pdeathSignal, pipes, state>>

WriteUidMap == WriteMapping("uid_map", "gid_map")

WriteGidMap == WriteMapping("gid_map", "sPipe.Close")

ParentSPipeClose ==
  /\ Call("parent", "sPipe.Close", "sPipe.Close", "", TRUE, "Wait", "")
  /\ pipes' = [pipes EXCEPT !["parent"].sPipe = @ + 1]
  /\ UNCHANGED <<config, environ, context, netIdx, kernel, pdeathSignal, escal>>

\* proc.Wait(): returns the child's status once the child has terminated, or
\* fails, and then Init kills the child and returns
Wait ==
  /\ pc["parent"] = "Wait"
  /\ \/ /\ wstatus["child"] # -1
        /\ Log("parent", <<Ev("Wait", "", TRUE)>>)
        /\ state' = wstatus["child"]
        /\ Goto("parent", "Exit")
        /\ UNCHANGED <<ret, wstatus>>
     \/ /\ KillAndReturn(<<Ev("Wait", "", FALSE)>>, "wait")
        /\ UNCHANGED state
  /\ UNCHANGED <<config, environ, context, netIdx, kernel, pdeathSignal, pipes, mapFiles>>

\* os.Exit(state.Sys().(syscall.WaitStatus).ExitStatus())
Exit ==
  /\ pc["parent"] = "Exit"
  /\ Log("parent", <<Ev("Exit", ExitStatus(state), TRUE)>>)
  /\ wstatus' = [wstatus EXCEPT !["parent"] = OsExit(ExitStatus(state))]
  /\ Goto("parent", "exited")
  /\ UNCHANGED <<config, environ, context, netIdx, kernel, pdeathSignal, pipes, mapFiles,
                 state, ret>>

(* ---------------- nested child (pid == 0) ---------------- *)
\* the child's close made to block until the parent has exited
ChildSPipeCloseAfterParentExit ==
  /\ pc["parent"] = "exited"
  /\ \E p \in Procs :
       /\ Call(p, "child.sPipe.Close", "sPipe.Close", "", TRUE, "Exec", "")
       /\ pipes' = [pipes EXCEPT ![p].sPipe = @ + 1]
  /\ UNCHANGED <<config, environ, context, netIdx, kernel, pdeathSignal, escal>>

\* the code after the `if pid != 0 { ... }` block, run by whichever process
\* reaches it
ChildSPipeClose ==
  /\ \E p \in Procs :
       /\ Call(p, "child.sPipe.Close", "sPipe.Close", "", TRUE, "Exec", "")
       /\ pipes' = [pipes EXCEPT ![p].sPipe = @ + 1]
  /\ UNCHANGED <<config, environ, context, netIdx, kernel, pdeathSignal, escal>>

\* syscall.Exec(args[0], args[0:], container.Env): replaces the image, or
\* returns its error
Exec ==
  /\ \E p \in Procs, ok \in BOOLEAN :
       Call(p, "Exec", "Exec", <<args[1], args, container.Env>>, ok, "execd", "exec")
  /\ UNCHANGED <<config, environ, context, netIdx, kernel, pdeathSignal, pipes, escal>>

\* the child terminates: the target program exits with any code or is killed
\* by a signal, or, exec having failed, the caller of Init reports the error
\* and exits 1 (log.Fatal)
ChildTerminatesWith(statuses) ==
  /\ pc["child"] \in {"execd", "returned"}
  /\ \E w \in IF pc["child"] = "execd" THEN statuses ELSE {Exited(1)} :
       wstatus' = [wstatus EXCEPT !["child"] = w]
  /\ Goto("child", "dead")
  /\ UNCHANGED <<config, environ, context, netIdx, kernel, pdeathSignal, pipes, mapFiles,
                 state, ops, ret>>

ChildTerminates == ChildTerminatesWith(ChildStatuses)

\* the same with a target program that exits 0 or 1 or is killed
FewStatuses == {Exited(0), Exited(1), Signaled(SIGKILL)}
ChildTerminatesFew == ChildTerminatesWith(FewStatuses)

Next == ResolveRootfs \/ StepLoadContainerEnvironment \/ ReadFromParent \/ SyncPipeClose
        \/ OpenAndDup \/ Setsid \/ Setctty \/ setupNetwork \/ LabelInit
        \/ InitializeMountNamespace \/ Sethostname \/ OpenFile \/ LockOSThread
        \/ ApplyProfile \/ SetProcessLabel \/ Restrict \/ GetParentDeathSignal
        \/ RestoreParentDeathSignal \/ Prctl \/ Setuid \/ Setgid \/ NewSyncPipe \/ Clone
        \/ FindProcess \/ WriteUidMap \/ WriteGidMap \/ ParentSPipeClose \/ Wait \/ Exit
        \/ ChildSPipeClose \/ Exec \/ ChildTerminates

Spec == Init /\ [][Next]_vars

\* the environment reconstruction on every declared environment up to the bounds
NextEnv == ResolveRootfs \/ StepLoadContainerEnvironment

SpecEnv == InitEnv /\ [][NextEnv]_vars

\* Init on every configuration, the target program's exit status drawn from
\* FewStatuses
NextOrder == ResolveRootfs \/ StepLoadContainerEnvironment \/ ReadFromParent \/ SyncPipeClose
        \/ OpenAndDup \/ Setsid \/ Setctty \/ setupNetwork \/ LabelInit
        \/ InitializeMountNamespace \/ Sethostname \/ OpenFile \/ LockOSThread
        \/ ApplyProfile \/ SetProcessLabel \/ Restrict \/ GetParentDeathSignal
        \/ RestoreParentDeathSignal \/ Prctl \/ Setuid \/ Setgid \/ NewSyncPipe \/ Clone
        \/ FindProcess \/ WriteUidMap \/ WriteGidMap \/ ParentSPipeClose \/ Wait \/ Exit
        \/ ChildSPipeClose \/ Exec \/ ChildTerminatesFew

SpecOrder == Init /\ [][NextOrder]_vars

\* the same under the scheduling of the two processes: a process whose next
\* call can complete without an error eventually makes it, and the exec'd
\* target program eventually terminates
AllOk(o) == \A p \in Procs : \A i \in DOMAIN o[p] : o[p][i].ok
NoFailure == AllOk(ops)
ParentSteps == ResolveRootfs \/ StepLoadContainerEnvironment \/ ReadFromParent \/ SyncPipeClose
        \/ OpenAndDup \/ Setsid \/ Setctty \/ setupNetwork \/ LabelInit
        \/ InitializeMountNamespace \/ Sethostname \/ OpenFile \/ LockOSThread
        \/ ApplyProfile \/ SetProcessLabel \/ Restrict \/ GetParentDeathSignal
        \/ RestoreParentDeathSignal \/ Prctl \/ Setuid \/ Setgid \/ NewSyncPipe \/ Clone
        \/ FindProcess \/ WriteUidMap \/ WriteGidMap \/ ParentSPipeClose \/ Wait \/ Exit
ChildSteps == ChildSPipeClose \/ Exec

SpecLive ==
  /\ Init /\ [][NextOrder]_vars
  /\ WF_vars(ParentSteps /\ AllOk(ops'))
  /\ WF_vars(ChildSteps /\ AllOk(ops'))
  /\ WF_vars(ChildTerminatesFew)

\* RestoreParentDeathSignal alone, on every old, current value and parent pid
NextRestore == RestoreParentDeathSignal

SpecRestore == InitRestore /\ [][NextRestore]_vars

(* ---------------- properties ---------------- *)
ParentOps == ops["parent"]
OkAt(p, i, op) == ops[p][i].op = op /\ ops[p][i].ok
Succeeded(p, op) == \E i \in DOMAIN ops[p] : OkAt(p, i, op)
Failed(p, op) == \E i \in DOMAIN ops[p] : ops[p][i].op = op /\ ~ops[p][i].ok
Wrote(file) == \E i \in DOMAIN ParentOps : OkAt("parent", i, "WriteFile") /\ ParentOps[i].arg[1] = file

\* C1: in every interleaving the parent has written the child's uid_map and
\* gid_map before the nested child calls exec.
C1_MappingsBeforeExec ==
  Did("child", "Exec") => Wrote("uid_map") /\ Wrote("gid_map")

\* C2: when the mapping writes and the wait succeed, the escalating parent
\* exits with the exit status the nested child reported, for every exit code
\* 0..255.
C2_ExitStatusPropagated ==
  \A c \in ExitCodes :
    (pc["parent"] = "exited" /\ wstatus["child"] = Exited(c)) => wstatus["parent"] = Exited(c)

C2_Witness ==
  /\ pc["parent"] = "exited"
  /\ Wrote("gid_map")
  /\ wstatus["child"] = Exited(137)
  /\ wstatus["parent"] = Exited(137)

\* C3: if a write of uid_map or gid_map fails, the parent kills the child,
\* returns the error "Failed to write mappings", and neither waits for the
\* child nor closes the nested channel.
C3_MappingFailure ==
  \A i \in DOMAIN ParentOps :
    (ParentOps[i].op = "WriteFile" /\ ~ParentOps[i].ok) =>
      /\ i < Len(ParentOps) /\ ParentOps[i + 1].op = "Kill"
      /\ wstatus["child"] # -1
      /\ pc["parent"] = "returned"
      /\ ret["parent"] = "Failed to write mappings"
      /\ ~Did("parent", "Wait")
      /\ ~Did("parent", "sPipe.Close")
      /\ pipes["parent"].sPipe = 0

C3_Witness ==
  /\ Wrote("uid_map")
  /\ Failed("parent", "WriteFile")
  /\ ret["parent"] = "Failed to write mappings"
  /\ wstatus["child"] = Signaled(SIGKILL)
  /\ pc["child"] = "dead"

\* C4: each of uid_map and gid_map is written at most once, only by the
\* parent, uid_map before gid_map, every content written is the single line
\* "0 H 1" with H the fixed host identity, and gid_map is not written when the
\* uid_map write failed.
WritesTo(p, file) == {i \in DOMAIN ops[p] : ops[p][i].op = "WriteFile" /\ ops[p][i].arg[1] = file}

C4_SingleMappingLine ==
  /\ WritesTo("child", "uid_map") = {} /\ WritesTo("child", "gid_map") = {}
  /\ Cardinality(WritesTo("parent", "uid_map")) <= 1
  /\ Cardinality(WritesTo("parent", "gid_map")) <= 1
  /\ Len(mapFiles.uid_map) <= 1 /\ Len(mapFiles.gid_map) <= 1
  /\ \A i \in DOMAIN ParentOps :
       ParentOps[i].op = "WriteFile" =>
         /\ Len(ParentOps[i].arg[2]) = 1
         /\ ParentOps[i].arg[2][1] =
              <<0, IF ParentOps[i].arg[1] = "uid_map" THEN dockerRootUid ELSE dockerRootGid, 1>>
  /\ \A i \in DOMAIN mapFiles.uid_map : mapFiles.uid_map[i] = << <<0, dockerRootUid, 1>> >>
  /\ \A i \in DOMAIN mapFiles.gid_map : mapFiles.gid_map[i] = << <<0, dockerRootGid, 1>> >>
  /\ \A j \in WritesTo("parent", "gid_map") :
       \E i \in WritesTo("parent", "uid_map") : i < j /\ ParentOps[i].ok

C4_Witness ==
  /\ Len(mapFiles.uid_map) = 1 /\ Len(mapFiles.gid_map) = 1
  /\ pc["parent"] = "Wait"

\* C5: Init never returns nil to its caller: no failing step, the opening of
\* the diagnostic log file included, makes Init return success.
C5_NeverReturnsNil ==
  \A p \in Procs : pc[p] = "returned" => ret[p] # NoErr

\* C6: when a declared entry lacks '=', LoadContainerEnvironment returns the
\* 'invalid environment' error and none of the declared entries before the
\* malformed one is set in the live environment.
Malformed(declared) == {j \in DOMAIN declared : \A i \in DOMAIN declared[j] : declared[j][i] # "="}

C6_NoPartialEnvironment ==
  ret["parent"] = "invalid environment" =>
    /\ Malformed(container.Env) # {}
    /\ \A i \in DOMAIN container.Env :
         (\A j \in Malformed(container.Env) : i < j)
           => SubSeq(container.Env[i], 1, IndexEq(container.Env[i]) - 1) \notin DOMAIN environ

\* C7: for a well-formed declared environment and any inherited environment,
\* after LoadContainerEnvironment succeeds the live environment holds exactly
\* the declared variables (key before the first '=', value after it, the last
\* duplicate of a key winning) and nothing inherited.
IsPair(s, k, v) == s = k \o <<"=">> \o v /\ \A i \in DOMAIN k : k[i] # "="
Prefixes(s) == {SubSeq(s, 1, n) : n \in 0..Len(s)}
Suffixes(s) == {SubSeq(s, n, Len(s)) : n \in 1..(Len(s) + 1)}
KeysOf(declared) ==
  UNION {{k \in Prefixes(declared[i]) : \E v \in Suffixes(declared[i]) : IsPair(declared[i], k, v)}
         : i \in DOMAIN declared}
ExactlyDeclared(env, declared) ==
  /\ DOMAIN env = KeysOf(declared)
  /\ \A i \in DOMAIN declared : \A k \in Prefixes(declared[i]) : \A v \in Suffixes(declared[i]) :
       (IsPair(declared[i], k, v)
        /\ \A j \in DOMAIN declared : j > i => \A w \in Suffixes(declared[j]) : ~IsPair(declared[j], k, w))
         => k \in DOMAIN env /\ env[k] = v

C7_ExactlyDeclared ==
  [][(pc["parent"] = "LoadContainerEnvironment" /\ pc'["parent"] = "ReadFromParent")
       => /\ ExactlyDeclared(environ', container.Env)
          /\ \A k \in DOMAIN environ : k \notin KeysOf(container.Env) => k \notin DOMAIN environ']_vars

C7_Witness ==
  /\ pc["parent"] = "ReadFromParent"
  /\ container.Env = << <<"a", "=">>, <<"a", "=", "=">> >>
  /\ environ = [k \in {<<"a">>} |-> <<"=">>]

\* C8: when some network endpoint has an unregistered type, Init fails with an
\* error and performs no mount-namespace initialization, hostname change,
\* securebits change, setuid/setgid or clone.
HasUnregistered == \E i \in DOMAIN container.Networks : GetStrategy(container.Networks[i]) # NoErr
PreNetwork ==
  {"ResolveRootfs", "LoadContainerEnvironment", "ReadFromParent", "syncPipe.Close",
   "OpenAndDup", "Setsid", "Setctty", "setupNetwork"}

C8_UnregisteredBeforeMutation ==
  HasUnregistered =>
    /\ \A p \in Procs : \A op \in {"InitializeMountNamespace", "Sethostname", "Prctl", "Setuid",
                                     "Setgid", "Clone"} : ~Did(p, op)
    /\ cred = [uid |-> 0, gid |-> 0, securebits |-> 0]
    /\ pc["child"] = "unborn"
    /\ pc["parent"] \in PreNetwork \cup {"returned"}
    /\ pc["parent"] = "returned" => ret["parent"] # NoErr

C8_Witness ==
  /\ container.Networks = <<"veth", "bogus">>
  /\ Succeeded("parent", "Initialize")
  /\ Failed("parent", "GetStrategy")
  /\ ret["parent"] = "setup networking"

\* C9: every handshake channel end held by a process running Init (the outer
\* channel, the nested channel) is closed by that process exactly once on
\* every path by which Init returns or the process exits.
C9_ChannelsClosedOnce ==
  \A p \in Procs :
    pc[p] \in {"returned", "exited", "execd"} =>
      /\ p = "parent" => pipes[p].syncPipe = 1
      /\ Succeeded("parent", "NewSyncPipe") => pipes[p].sPipe = 1

\* C10: each setuid/setgid performed after the parent-death signal was
\* captured is followed by a RestoreParentDeathSignal before the process
\* clones, waits or execs.
C10_RestoreAfterIdentityChange ==
  \A j \in DOMAIN ParentOps :
    ParentOps[j].op \in {"Clone", "Wait", "Exec"} =>
      \A i \in 1..(j - 1) :
        (ParentOps[i].op \in {"Setuid", "Setgid"} /\ ParentOps[i].ok) =>
          \E r \in (i + 1)..(j - 1) : ParentOps[r].op = "RestoreParentDeathSignal"

\* C11: RestoreParentDeathSignal(0) is a no-op for every current value and
\* every parent pid: it neither reads nor sets the parent-death signal, sends
\* no signal and returns no error.
C11_RestoreZeroNoOp ==
  [][(pc["parent"] = "RestoreParentDeathSignal" /\ pdeathSignal = 0 /\ pc' # pc)
       => /\ pdeathsig' = pdeathsig
          /\ ops'["parent"] = Append(ops["parent"], Ev("RestoreParentDeathSignal", 0, TRUE))
          /\ ret' = ret
          /\ pc'["parent"] = "Prctl"]_vars

C11_Witness ==
  /\ Did("parent", "RestoreParentDeathSignal")
  /\ pdeathSignal = 0
  /\ pdeathsig = SIGKILL
  /\ ppid = 1
  /\ pc["parent"] = "Prctl"

\* C17 as stated: for every nonzero old and every current value, when
\* RestoreParentDeathSignal(old) returns without a get/set error and the
\* parent pid is 1, old has been sent by the process to itself; and old is
\* re-installed only if the current value differed from old.
NewCalls == SubSeq(ops'["parent"], Len(ops["parent"]) + 1, Len(ops'["parent"]))
Called(calls, op, arg) == \E i \in DOMAIN calls : calls[i].op = op /\ calls[i].arg = arg
GetSetOk(calls) ==
  \A i \in DOMAIN calls : calls[i].op \in {"GetParentDeathSignal", "ParentDeathSignal"} => calls[i].ok
RestoreStep == pc["parent"] = "RestoreParentDeathSignal" /\ pdeathSignal # 0 /\ pc' # pc

C17_SignalsSelfWheneverOrphaned ==
  [][RestoreStep
       => /\ (GetSetOk(NewCalls) /\ ppid = 1) => Called(NewCalls, "Kill", pdeathSignal)
          /\ Called(NewCalls, "ParentDeathSignal", pdeathSignal) => pdeathsig # pdeathSignal]_vars

\* C17 amended: for every nonzero old, when RestoreParentDeathSignal(old)
\* returns without a get/set error, the parent pid is 1 and the current value
\* differed from old, old has been sent by the process to itself; old is
\* re-installed only if the current value differed from old, and when the
\* current value equals old nothing is installed and no signal is sent.
C17_SignalsSelfAfterReinstall ==
  [][RestoreStep
       => /\ (GetSetOk(NewCalls) /\ ppid = 1 /\ pdeathsig # pdeathSignal)
               => Called(NewCalls, "Kill", pdeathSignal) /\ pdeathsig' = pdeathSignal
          /\ Called(NewCalls, "ParentDeathSignal", pdeathSignal) => pdeathsig # pdeathSignal
          /\ pdeathsig = pdeathSignal
               => /\ \A i \in DOMAIN NewCalls : NewCalls[i].op \notin {"ParentDeathSignal", "Kill"}
                  /\ pdeathsig' = pdeathsig]_vars

C17_Witness ==
  /\ pdeathSignal = SIGKILL
  /\ ppid = 1
  /\ pdeathsig = SIGKILL
  /\ pc["parent"] = "Prctl"
  /\ \E i \in DOMAIN ParentOps : ParentOps[i] = Ev("ParentDeathSignal", SIGKILL, TRUE)
  /\ \E i \in DOMAIN ParentOps : ParentOps[i] = Ev("Kill", SIGKILL, TRUE)

\* C12 as stated: the Security Hardener steps (ApplyProfile, SetProcessLabel,
\* Restrict) all happen after network attachment dispatch and before the
\* mount-namespace initialization and hostname setup.
Hardening == {"ApplyProfile", "SetProcessLabel", "Restrict"}
NetworkOps == {"GetStrategy", "Initialize"}
MountOps == {"InitializeMountNamespace", "Sethostname"}
AllBefore(opsA, i) == \A j \in DOMAIN ParentOps : ParentOps[j].op \in opsA => j < i
AllAfter(opsA, i) == \A j \in DOMAIN ParentOps : ParentOps[j].op \in opsA => i < j
OkBefore(op, i) == \E j \in 1..(i - 1) : OkAt("parent", j, op)
NetworkDone(i) ==
  Cardinality({j \in 1..(i - 1) : OkAt("parent", j, "Initialize")}) = Len(container.Networks)

C12_HardeningBeforeMount ==
  \A i \in DOMAIN ParentOps :
    ParentOps[i].op \in Hardening => AllBefore(NetworkOps, i) /\ AllAfter(MountOps, i)

\* C12 amended: the Security Hardener steps ApplyProfile, SetProcessLabel and
\* Restrict all happen after network attachment dispatch and after (not
\* before) the mount-namespace initialization and the hostname setup; of the
\* hardening only label.Init lies between network dispatch and the mount setup.
C12_HardeningAfterMount ==
  \A i \in DOMAIN ParentOps :
    /\ ParentOps[i].op \in Hardening =>
         /\ AllBefore(NetworkOps, i) /\ NetworkDone(i)
         /\ AllBefore(MountOps, i)
         /\ OkBefore("InitializeMountNamespace", i)
         /\ container.Hostname # "" => OkBefore("Sethostname", i)
    /\ ParentOps[i].op = "label.Init" =>
         AllBefore(NetworkOps, i) /\ NetworkDone(i) /\ AllAfter(MountOps \cup Hardening, i)

C12_Witness ==
  /\ Succeeded("parent", "Restrict")
  /\ Succeeded("parent", "Sethostname")
  /\ Len(container.Networks) = 2
  /\ pc["parent"] = "GetParentDeathSignal"

\* C13: on every execution that reaches the securebits adjustment the
\* hardening has run in the order label.Init (once), ApplyProfile (exactly
\* once, also with an empty profile name), SetProcessLabel (exactly once),
\* Restrict("sys") exactly once iff the restriction flag is set; a failure of
\* any of these steps makes Init return an error before any securebits or
\* UID/GID change.
Indices(op) == {i \in DOMAIN ParentOps : ParentOps[i].op = op}
Once(op, arg) ==
  /\ Cardinality(Indices(op)) = 1
  /\ \A i \in Indices(op) : ParentOps[i].ok /\ ParentOps[i].arg = arg
Precedes(a, b) == \A i \in Indices(a) : \A j \in Indices(b) : i < j

C13_HardeningOrder ==
  /\ Did("parent", "Prctl") =>
       /\ Once("label.Init", "")
       /\ Once("ApplyProfile", container.Context.apparmor_profile)
       /\ Once("SetProcessLabel", container.Context.process_label)
       /\ IF container.Context.restrictions # "" THEN Once("Restrict", "sys")
          ELSE Indices("Restrict") = {}
       /\ Precedes("label.Init", "ApplyProfile")
       /\ Precedes("ApplyProfile", "SetProcessLabel")
       /\ Precedes("SetProcessLabel", "Restrict")
       /\ Precedes("SetProcessLabel", "Prctl")
       /\ Precedes("Restrict", "Prctl")
  /\ \A h \in Hardening :
       Failed("parent", h) =>
         /\ pc["parent"] = "returned"
         /\ ret["parent"] \notin {"none", NoErr}
         /\ \A op \in {"Prctl", "Setuid", "Setgid"} : ~Did("parent", op)
         /\ cred = [uid |-> 0, gid |-> 0, securebits |-> 0]

C13_Witness ==
  /\ Did("parent", "Prctl")
  /\ container.Context.apparmor_profile = ""
  /\ \E i \in DOMAIN ParentOps : ParentOps[i] = Ev("ApplyProfile", "", TRUE)

\* C14: clone is performed only after, in this order, the thread was pinned
\* (LockOSThread), the securebits keep-caps | no-setuid-fixup were set, setuid
\* to the fixed host UID succeeded and setgid to the fixed host GID succeeded;
\* if securebits, setuid, setgid or the creation of the nested channel fails,
\* Init returns an error and no clone occurs.
C14_CloneAfterIdentity ==
  /\ Did("parent", "Clone") =>
       /\ Once("LockOSThread", "")
       /\ Once("Prctl", secbit_keep_caps + secbit_no_setuid_fixup)
       /\ Once("Setuid", dockerRootUid)
       /\ Once("Setgid", dockerRootGid)
       /\ Once("NewSyncPipe", "")
       /\ Precedes("LockOSThread", "Prctl")
       /\ Precedes("Prctl", "Setuid")
       /\ Precedes("Setuid", "Setgid")
       /\ Precedes("Setgid", "NewSyncPipe")
       /\ Precedes("NewSyncPipe", "Clone")
       /\ cred = [uid |-> dockerRootUid, gid |-> dockerRootGid,
                  securebits |-> secbit_keep_caps + secbit_no_setuid_fixup]
  /\ \A op \in {"Prctl", "Setuid", "Setgid", "NewSyncPipe"} :
       Failed("parent", op) =>
         /\ pc["parent"] = "returned"
         /\ ret["parent"] \notin {"none", NoErr}
         /\ ~Did("parent", "Clone")
         /\ pc["child"] = "unborn"

C14_Witness ==
  /\ Succeeded("parent", "Clone")
  /\ pc["child"] # "unborn"
  /\ cred = [uid |-> 1017, gid |-> 1017, securebits |-> 6]

\* C15: whenever the escalating parent returns an error after clone has
\* succeeded (process lookup, mapping write or wait failure), it has first
\* killed the child.
C15_KillBeforeErrorReturn ==
  (Succeeded("parent", "Clone") /\ pc["parent"] = "returned") =>
    /\ ParentOps[Len(ParentOps)].op = "Kill"
    /\ wstatus["child"] # -1

\* C16: setupNetwork visits the declared endpoints in order; for each endpoint
\* whose type resolves it calls that strategy's Initialize exactly once with
\* the endpoint's configuration and the payload read from the parent; it
\* stops at the first lookup or Initialize failure; with no endpoint it calls
\* nothing and succeeds.
Rank(i) == Cardinality({j \in Indices("GetStrategy") : j <= i})

C16_NetworkDispatch ==
  /\ \A i \in Indices("GetStrategy") :
       /\ Rank(i) <= Len(container.Networks)
       /\ ParentOps[i].arg = [idx |-> Rank(i), Type |-> container.Networks[Rank(i)]]
       /\ ParentOps[i].ok <=> GetStrategy(container.Networks[Rank(i)]) = NoErr
       /\ ParentOps[i].ok <=> (i + 1) \in Indices("Initialize")
  /\ \A i \in Indices("Initialize") :
       /\ (i - 1) \in Indices("GetStrategy")
       /\ ParentOps[i].arg = <<ParentOps[i - 1].arg, context>>
       /\ \E j \in 1..(i - 1) : ParentOps[j] = Ev("ReadFromParent", context, TRUE)
  /\ \A i \in Indices("GetStrategy") \cup Indices("Initialize") :
       ~ParentOps[i].ok =>
         i = Len(ParentOps) /\ pc["parent"] = "returned" /\ ret["parent"] = "setup networking"
  /\ ret["parent"] = "setup networking" => Failed("parent", "GetStrategy") \/ Failed("parent", "Initialize")
  /\ Did("parent", "label.Init") =>
       /\ Cardinality(Indices("Initialize")) = Len(container.Networks)
       /\ Cardinality(Indices("GetStrategy")) = Len(container.Networks)

C16_Witness ==
  /\ container.Networks = <<"veth", "veth">>
  /\ context = "veth0"
  /\ Did("parent", "label.Init")
  /\ Cardinality({i \in Indices("Initialize") : ParentOps[i].ok /\ ParentOps[i].arg[2] = "veth0"}) = 2

\* C18: after clone the two roles are exclusive: only the nested child calls
\* exec (args[0] as image path and argv[0], the declared environment), only
\* the escalating parent writes the ID mappings, waits for the child or exits
\* with a propagated status.
ParentOnly == {"FindProcess", "WriteFile", "Kill", "Wait", "Exit"}
OkWrites(file) ==
  {i \in DOMAIN ParentOps : OkAt("parent", i, "WriteFile") /\ ParentOps[i].arg[1] = file}

C18_RolesExclusive ==
  /\ ~Did("parent", "Exec")
  /\ pc["parent"] \notin {"child.sPipe.Close", "Exec", "execd"}
  /\ \A i \in DOMAIN ops["child"] :
       /\ ops["child"][i].op \in {"sPipe.Close", "Exec"}
       /\ ops["child"][i].op = "Exec" => ops["child"][i].arg = <<args[1], args, container.Env>>
  /\ \A op \in ParentOnly : ~Did("child", op)
  /\ pc["child"] \in {"unborn", "child.sPipe.Close", "Exec", "execd", "returned", "dead"}
  /\ pc["child"] # "unborn" <=> Succeeded("parent", "Clone")
  /\ \A op \in ParentOnly : Did("parent", op) => Succeeded("parent", "Clone")
  /\ Len(mapFiles.uid_map) = Cardinality(OkWrites("uid_map"))
  /\ Len(mapFiles.gid_map) = Cardinality(OkWrites("gid_map"))
  /\ state # -1 <=> Succeeded("parent", "Wait")
  /\ wstatus["parent"] # -1 <=> Did("parent", "Exit")

C18_Witness ==
  /\ Succeeded("child", "Exec")
  /\ Did("parent", "Exit")
  /\ pc["parent"] = "exited"
  /\ Len(mapFiles.gid_map) = 1

\* C19: the protocol after clone cannot deadlock: if no call fails and the
\* exec'd target terminates, the nested child reaches exec without waiting for
\* any action of the parent and the escalating parent reaches its exit.
C19_NoDeadlock ==
  /\ (pc["child"] = "child.sPipe.Close") ~> (~NoFailure \/ pc["child"] \in {"execd", "dead"})
  /\ [](pc["child"] \in {"child.sPipe.Close", "Exec"} => ENABLED <<ChildSteps>>_vars)
  /\ (pc["parent"] = "FindProcess") ~> (~NoFailure \/ pc["parent"] = "exited")

C19_Witness ==
  /\ NoFailure
  /\ pc["parent"] = "exited"
  /\ pc["child"] = "dead"
  /\ Succeeded("child", "Exec")

\* C20: the clone shares one descriptor table between parent and child, so
\* both Close calls on the nested channel act on the same descriptors; each
\* descriptor of the nested channel is closed at most once in the shared
\* table.
\* SyncPipe.Close() closes the channel's descriptors in the caller's table;
\* after Clone with CLONE_FILES that table is the one both processes use
SharedTableCloses(ch) == pipes["parent"][ch] + pipes["child"][ch]

C20_DescriptorClosedOnce == SharedTableCloses("sPipe") <= 1

====
